---- MODULE Spec2Model ----
(***************************************************************************)
(* Model of the AS1130 LED-matrix driver (src/LRAS1130.cpp).               *)
(*                                                                         *)
(* The driver talks to one chip over the two-wire bus.  The chip is        *)
(* modelled by its selected memory bank (sel), its address pointer (ptr)   *)
(* and its memory (mem); the bus by the list of transactions of the        *)
(* latest driver step (trace).  A transaction the chip does not            *)
(* acknowledge has no effect on the chip; a read request it does not       *)
(* answer leaves no byte available.                                        *)
(***************************************************************************)
EXTENDS Integers, Sequences, FiniteSets, TLC

VARIABLES
    sel,        \* chip: memory bank selected by the last acknowledged write to 0xFD
    ptr,        \* chip: address pointer set by the last acknowledged address byte
    mem,        \* chip: memory, <<bank, address>> -> byte (absent cell: power-on 0)
    trace,      \* bus transactions issued by the latest driver step
    ret,        \* value returned by the latest completed call
    call,       \* the driver call: [op, args]
    pc,         \* position of the driver in the call
    env,        \* "responsive": every transaction is acknowledged; "faulty": any may fail
    before,     \* chip memory when the call started
    after,      \* chip memory when the latest driver step ended
    prevCall,   \* the call completed before this one
    responded,  \* some transaction of the call in progress was acknowledged
    delayed,    \* the call in progress has executed delay(10)
    lastPoll    \* what the latest status poll of the call decided: "none", "running", "idle"

vars == <<sel, ptr, mem, trace, ret, call, pc, env, before, after, prevCall,
          responded, delayed, lastPoll>>

(***************************************************************************)
(* Register map (LRAS1130.h) and the bank selection address.               *)
(***************************************************************************)
cRegisterSelectionAddress == 253

RS_NOP == 0
RS_OnOffFrame == 1
RS_BlinkAndPwmSet == 64
RS_DotCorrection == 128
RS_Control == 192

CR_Picture == 0
CR_Movie == 1
CR_MovieMode == 2
CR_FrameTimeScroll == 3
CR_DisplayOption == 4
CR_CurrentSource == 5
CR_Config == 6
CR_InterruptMask == 7
CR_InterruptFrameDefinition == 8
CR_ShutdownAndOpenShort == 9
CR_InterfaceMonitoring == 10
CR_ClockSynchronization == 11
CR_InterruptStatus == 14
CR_Status == 15
CR_OpenLedBase == 32

PF_BlinkPicture == 128
PF_DisplayPicture == 64
PF_PictureAddressMask == 63
MF_BlinkMovie == 128
MF_DisplayMovie == 64
MF_MovieAddressMask == 63
MMF_BlinkEnabled == 128
MMF_EndLast == 64
MMF_MovieFramesMask == 63
FTSF_FrameFade == 128
FTSF_ScrollDirection == 64
FTSF_BlockSize == 32
FTSF_EnableScrolling == 16
FTSF_FrameDelay == 15
DOF_LoopsMask == 224
DOF_BlinkFrequency == 16
DOF_ScanLimitMask == 15
CF_LowVddReset == 128
CF_LowVddStatus == 64
CF_LedErrorCorrection == 32
CF_DotCorrection == 16
CF_MemoryConfigMask == 7
SOSF_TestAll == 16
SOSF_AutoTest == 8
SOSF_ManualTest == 4
SOSF_Shutdown == 1
\* StatusFlag SF_TestOn, SF_MovieOn (a name cannot start with the fairness prefix)
Status_TestOn == 2
Status_MovieOn == 1

\* Return values: a flag, a byte or a LedStatus, tagged by kind.
RetVoid == [kind |-> "void", b |-> FALSE, n |-> 0]

RetBool(v) == [kind |-> "bool", b |-> v, n |-> 0]

RetByte(v) == [kind |-> "byte", b |-> FALSE, n |-> v]

RetStatus(st) == [kind |-> st, b |-> FALSE, n |-> 0]

LedStatusOk == "Ok"
LedStatusOpen == "Open"
LedStatusDisabled == "Disabled"

(***************************************************************************)
(* uint8_t / uint16_t arithmetic.                                          *)
(***************************************************************************)
Byte == 0..255

U8(n) == n % 256

U16(n) == n % 65536

Bit(v, i) == (v \div (2^i)) % 2

RECURSIVE AndN(_, _, _)
AndN(a, b, n) ==
    IF n = 0 THEN 0
    ELSE (a % 2) * (b % 2) + 2 * AndN(a \div 2, b \div 2, n - 1)

\* a & b on 4-bit operands, tabulated
AndNibble == [a \in 0..15 |-> [b \in 0..15 |-> AndN(a, b, 4)]]

\* a & b on 8-bit operands
And(a, b) == 16 * AndNibble[a \div 16][b \div 16] + AndNibble[a % 16][b % 16]

\* a | b on 8-bit operands
Or(a, b) == a + b - And(a, b)

\* (uint8_t)~a
Not8(a) == 255 - a

\* (uint8_t)(a << n)
Shl8(a, n) == U8(a * (2^n))

Min(a, b) == IF a < b THEN a ELSE b

(***************************************************************************)
(* The chip and the bus.  A world w carries the chip state, the            *)
(* transactions issued so far in this step, the set of transaction         *)
(* numbers the chip will not acknowledge (fail) and the last value read.   *)
(***************************************************************************)
NoByte == -1

\* Sequencing of two statements: what F yields from v, with v computed before
\* F is entered.  TLC computes an operator's argument where the operator first
\* uses it, which for a loop of n iterations nests n computations.
Then(v, F(_)) == CHOOSE r \in {F(x) : x \in {v}} : TRUE

Cell(w, bank, address) ==
    IF <<bank, address>> \in DOMAIN w.mem THEN w.mem[<<bank, address>>] ELSE 0

Store(m, cell, data) == (cell :> data) @@ m

\* whether the chip acknowledges the next transaction of the step
Acked(w) == (Len(w.trace) + 1) \notin w.fail

\* The chip's reaction to an acknowledged two-byte write: address 0xFD
\* selects the memory bank, any other address stores the byte in the
\* selected bank.
ChipWrite(w, address, data) ==
    IF address = cRegisterSelectionAddress
    THEN [w EXCEPT !.sel = data]
    ELSE [w EXCEPT !.mem = Store(w.mem, <<w.sel, address>>, data),
                   !.ptr = address]

\* Wire.beginTransmission; Wire.write(address); Wire.write(data);
\* Wire.endTransmission.  rs is not sent: it records, for the properties,
\* the bank the enclosing memory access was asked to address.
writeToChip(world, address, data, rs) ==
    Then(world, LAMBDA w :
        LET tx == [k |-> "write", a |-> address, d |-> data, rs |-> rs]
            w1 == IF Acked(w) THEN ChipWrite(w, address, data) ELSE w
        IN  [w1 EXCEPT !.trace = Append(w.trace, tx),
                       !.ok = w.ok \/ Acked(w)])

\* Mutant: the bank is selected only when the chip is not known to have it
\* selected already.
writeToMemoryCachedBank(world, registerSelection, address, data) ==
    Then(world, LAMBDA w :
        IF w.sel = registerSelection
        THEN writeToChip(w, address, data, registerSelection)
        ELSE writeToChip(writeToChip(w, cRegisterSelectionAddress, registerSelection,
                                     registerSelection),
                         address, data, registerSelection))

writeToMemory(w, registerSelection, address, data) ==
    LET w1 == writeToChip(w, cRegisterSelectionAddress, registerSelection,
                            registerSelection)
    IN  writeToChip(w1, address, data, registerSelection)

\* Wire.beginTransmission; Wire.write(address); Wire.endTransmission
setReadAddress(world, address, rs) ==
    Then(world, LAMBDA w :
        LET tx == [k |-> "addr", a |-> address, d |-> 0, rs |-> rs]
            w1 == IF Acked(w) THEN [w EXCEPT !.ptr = address] ELSE w
        IN  [w1 EXCEPT !.trace = Append(w.trace, tx),
                       !.ok = w.ok \/ Acked(w)])

\* Mutant: a read that yields no byte falls back to 0xFF instead of 0x00.
requestByteFallbackOnes(world, address, rs) ==
    Then(world, LAMBDA w :
        LET got == IF Acked(w) THEN Cell(w, w.sel, w.ptr) ELSE NoByte
            tx  == [k |-> "read", a |-> address, d |-> got, rs |-> rs]
        IN  [w EXCEPT !.trace = Append(w.trace, tx),
                      !.val = IF got = NoByte THEN 255 ELSE got,
                      !.ok = w.ok \/ Acked(w)])

\* Wire.requestFrom(1); Wire.available() == 1 ? Wire.read() : 0x00
requestByte(world, address, rs) ==
    Then(world, LAMBDA w :
        LET got == IF Acked(w) THEN Cell(w, w.sel, w.ptr) ELSE NoByte
            tx  == [k |-> "read", a |-> address, d |-> got, rs |-> rs]
        IN  [w EXCEPT !.trace = Append(w.trace, tx),
                      !.val = IF got = NoByte THEN 0 ELSE got,
                      !.ok = w.ok \/ Acked(w)])

readFromMemory(w, registerSelection, address) ==
    LET w1 == writeToChip(w, cRegisterSelectionAddress, registerSelection,
                            registerSelection)
        w2 == setReadAddress(w1, address, registerSelection)
    IN  requestByte(w2, address, registerSelection)

writeControlRegister(w, controlRegister, data) ==
    writeToMemory(w, RS_Control, controlRegister, data)

readControlRegister(w, controlRegister) ==
    readFromMemory(w, RS_Control, controlRegister)

\* Mutant: the field is OR-ed in without clearing the mask's bits first.
writeControlRegisterBitsNoClear(w, controlRegister, mask, data) ==
    Then(readControlRegister(w, controlRegister), LAMBDA w1 :
        LET registerData == Or(w1.val, And(data, mask))
        IN  writeControlRegister(w1, controlRegister, registerData))

writeControlRegisterBits(w, controlRegister, mask, data) ==
    Then(readControlRegister(w, controlRegister), LAMBDA w1 :
        LET registerData == Or(And(w1.val, Not8(mask)), And(data, mask))
        IN  writeControlRegister(w1, controlRegister, registerData))

setControlRegisterBits(w, controlRegister, mask) ==
    writeControlRegisterBits(w, controlRegister, mask, mask)

\* a ^ b on 8-bit operands
Xor(a, b) == a + b - 2 * And(a, b)

\* Mutant: the masked bits are toggled (^=) instead of cleared.
clearControlRegisterBitsToggling(w, controlRegister, mask) ==
    Then(readControlRegister(w, controlRegister), LAMBDA w1 :
        writeControlRegister(w1, controlRegister, Xor(w1.val, mask)))

clearControlRegisterBits(w, controlRegister, mask) ==
    writeControlRegisterBits(w, controlRegister, mask, 0)

setOrClearControlRegisterBits(w, controlRegister, mask, setBits) ==
    IF setBits
    THEN writeControlRegisterBits(w, controlRegister, mask, mask)
    ELSE writeControlRegisterBits(w, controlRegister, mask, 0)

(***************************************************************************)
(* Frame upload.  A frame buffer is a tuple of 24 bytes and a source mask   *)
(* a tuple of 15 bytes; element i of the C array is element i + 1 here.     *)
(***************************************************************************)
finalDataSize == 24

\* Mutant: the byte-boundary test is off by one, LED 8 of a segment stays in the low byte.
setOnOffFrameBitLateBoundary(index, data) ==
    LET segmentIndex == index \div 10
        segmentLed   == index % 10
        bitToSet     == 2^(And(segmentLed, 7))
        target       == segmentIndex * 2 + (IF segmentLed > 8 THEN 1 ELSE 0)
    IN  [data EXCEPT ![target + 1] = Or(@, bitToSet)]

\* Set the LED in the frame register.
setOnOffFrameBit(index, data) ==
    LET segmentIndex == index \div 10
        segmentLed   == index % 10
        bitToSet     == 2^(And(segmentLed, 7))
        target       == segmentIndex * 2 + (IF segmentLed >= 8 THEN 1 ELSE 0)
    IN  [data EXCEPT ![target + 1] = Or(@, bitToSet)]

\* Check if in the definition bit mask a bit at the given coordinates is set.
isMaskBitSet(x, y, data) ==
    LET source    == data[(y * 3) + (x \div 8) + 1]
        bitToTest == 2^(7 - And(x, 7))
    IN  And(source, bitToTest) # 0

\* for (x = from; x < 24; ++x) of setOnOffFrame24x5, in row y.
RECURSIVE fillRow(_, _, _, _)
fillRow(x, y, data, finalData) ==
    IF x >= 24 THEN finalData
    ELSE LET ledIndex == U8(y + (5 * x))
         IN  fillRow(x + 1, y, data,
                     IF isMaskBitSet(x, y, data)
                     THEN setOnOffFrameBit(ledIndex, finalData)
                     ELSE finalData)

\* for (y = from; y < 5; ++y) of setOnOffFrame24x5.
RECURSIVE fillFrame(_, _, _)
fillFrame(y, data, finalData) ==
    IF y >= 5 THEN finalData
    ELSE Then(fillRow(0, y, data, finalData), LAMBDA row : fillFrame(y + 1, data, row))

\* for (i = from; i < Len(bytes); ++i) writeToMemory(rs, i, bytes[i])
RECURSIVE writeBytes(_, _, _, _)
writeBytes(w, rs, i, bytes) ==
    IF i >= Len(bytes) THEN w
    ELSE Then(writeToMemory(w, rs, i, bytes[i + 1]),
              LAMBDA w1 : writeBytes(w1, rs, i + 1, bytes))

setOnOffFrame24x5(w, frameIndex, data, pwmSetIndex) ==
    LET zero      == [i \in 1..finalDataSize |-> 0]
        withPwm   == [zero EXCEPT ![2] = Shl8(pwmSetIndex, 5)]
        frameAddress == U8(RS_OnOffFrame + frameIndex)
    IN  Then(fillFrame(0, data, withPwm),
             LAMBDA finalData : writeBytes(w, frameAddress, 0, finalData))

\* for (i = from; i < 12; ++i) { writeToMemory(rs, i*2, lo); writeToMemory(rs, i*2+1, hi); }
RECURSIVE writeSegments(_, _, _, _, _)
writeSegments(w, rs, i, lo, hi) ==
    IF i >= 12 THEN w
    ELSE Then(writeToMemory(writeToMemory(w, rs, i * 2, lo), rs, i * 2 + 1, hi),
              LAMBDA w1 : writeSegments(w1, rs, i + 1, lo, hi))

setOnOffFrameAllOn(w, frameIndex, pwmSetIndex) ==
    LET frameAddress == U8(RS_OnOffFrame + frameIndex)
        w1 == writeToMemory(w, frameAddress, 0, 255)
        w2 == writeToMemory(w1, frameAddress, 1, Or(Shl8(pwmSetIndex, 5), 3))
    IN  writeSegments(w2, frameAddress, 1, 255, 7)

\* for (i = from; i < to; ++i) writeToMemory(rs, i, value): the writes of the
\* lower half of the range, then those of the upper half.
RECURSIVE writeFill(_, _, _, _, _)
writeFill(w, rs, from, to, value) ==
    IF from >= to THEN w
    ELSE IF to = from + 1 THEN writeToMemory(w, rs, from, value)
    ELSE Then((from + to) \div 2, LAMBDA mid :
             Then(writeFill(w, rs, from, mid, value),
                  LAMBDA w1 : writeFill(w1, rs, mid, to, value)))

setBlinkAndPwmSetAll(w, setIndex, doesBlink, pwmValue) ==
    LET setAddress == U8(RS_BlinkAndPwmSet + setIndex)
        w1 == IF doesBlink
              THEN writeSegments(w, setAddress, 0, 255, 7)
              ELSE writeSegments(w, setAddress, 0, 0, 0)
    IN  writeFill(w1, setAddress, 24, 156, pwmValue)

setDotCorrection(w, data) == writeBytes(w, RS_DotCorrection, 0, data)

(***************************************************************************)
(* Control register configuration and playback control.                    *)
(***************************************************************************)
isChipConnected(w) ==
    LET w1 == writeToChip(w, cRegisterSelectionAddress, RS_NOP, RS_NOP)
    IN  [w1 EXCEPT !.ret = RetBool(Acked(w))]

setRamConfiguration(w, ramConfiguration) ==
    writeControlRegisterBits(w, CR_Config, CF_MemoryConfigMask, ramConfiguration)

setInterruptMask(w, mask) == writeControlRegister(w, CR_InterruptMask, mask)

setInterruptFrame(w, lastFrame) ==
    writeControlRegister(w, CR_InterruptFrameDefinition, lastFrame)

setInterfaceMonitoring(w, timeout, enabled) ==
    LET data == Or(IF enabled THEN 1 ELSE 0, Shl8(And(timeout, 63), 1))
    IN  writeControlRegister(w, CR_InterfaceMonitoring, data)

setClockSynchronization(w, synchronization, clockFrequency) ==
    writeControlRegister(w, CR_ClockSynchronization, Or(synchronization, clockFrequency))

setCurrentSource(w, current) == writeControlRegister(w, CR_CurrentSource, current)

setScanLimit(w, scanLimit) ==
    writeControlRegisterBits(w, CR_DisplayOption, DOF_ScanLimitMask, scanLimit)

setBlinkEnabled(w, enabled) ==
    setOrClearControlRegisterBits(w, CR_MovieMode, MMF_BlinkEnabled, ~enabled)

startPicture(w, frameIndex, blinkAll) ==
    LET d1 == Or(PF_DisplayPicture, And(frameIndex, PF_PictureAddressMask))
        d2 == IF blinkAll THEN Or(d1, PF_BlinkPicture) ELSE d1
    IN  writeControlRegister(w, CR_Picture, d2)

stopPicture(w) == writeControlRegister(w, CR_Picture, 0)

setMovieEndFrame(w, endWithLastFrame) ==
    setOrClearControlRegisterBits(w, CR_MovieMode, MMF_EndLast, endWithLastFrame)

setMovieFrameCount(w, count) ==
    writeControlRegisterBits(w, CR_MovieMode, MMF_MovieFramesMask, U8(count - 1))

\* The frame delay field computed from the uint16_t argument.
frameDelayTicks(delayMs) ==
    LET d1 == U16(delayMs * 10)
        d2 == d1 \div 325
        d3 == IF d2 > 15 THEN 15 ELSE d2
    IN  U8(d3)

setFrameDelayMs(w, delayMs) ==
    writeControlRegisterBits(w, CR_FrameTimeScroll, FTSF_FrameDelay, frameDelayTicks(delayMs))

setScrollingEnabled(w, enable) ==
    setOrClearControlRegisterBits(w, CR_FrameTimeScroll, FTSF_EnableScrolling, enable)

setScrollingBlockSize(w, in5LedBlocks) ==
    setOrClearControlRegisterBits(w, CR_FrameTimeScroll, FTSF_BlockSize, in5LedBlocks)

setScrollingDirection(w, scrollingLeft) ==
    setOrClearControlRegisterBits(w, CR_FrameTimeScroll, FTSF_ScrollDirection, scrollingLeft)

setFrameFadingEnabled(w, enable) ==
    setOrClearControlRegisterBits(w, CR_FrameTimeScroll, FTSF_FrameFade, enable)

setBlinkFrequency(w, frequency3s) ==
    setOrClearControlRegisterBits(w, CR_DisplayOption, DOF_BlinkFrequency, frequency3s)

setMovieLoopCount(w, movieLoopCount) ==
    writeControlRegisterBits(w, CR_DisplayOption, DOF_LoopsMask, movieLoopCount)

startMovie(w, firstFrameIndex, blinkAll) ==
    LET d1 == Or(MF_DisplayMovie, And(firstFrameIndex, MF_MovieAddressMask))
        d2 == IF blinkAll THEN Or(d1, MF_BlinkMovie) ELSE d1
    IN  writeControlRegister(w, CR_Movie, d2)

stopMovie(w) == writeControlRegister(w, CR_Movie, 0)

setLowVddResetEnabled(w, enabled) ==
    setOrClearControlRegisterBits(w, CR_Config, CF_LowVddReset, enabled)

setLowVddStatusEnabled(w, enabled) ==
    setOrClearControlRegisterBits(w, CR_Config, CF_LowVddStatus, enabled)

setLedErrorCorrectionEnabled(w, enabled) ==
    setOrClearControlRegisterBits(w, CR_Config, CF_LedErrorCorrection, enabled)

setDotCorrectionEnabled(w, enabled) ==
    setOrClearControlRegisterBits(w, CR_Config, CF_DotCorrection, enabled)

setTestAllLedsEnabled(w, enabled) ==
    setOrClearControlRegisterBits(w, CR_ShutdownAndOpenShort, SOSF_TestAll, enabled)

setAutomaticTestEnabled(w, enabled) ==
    setOrClearControlRegisterBits(w, CR_ShutdownAndOpenShort, SOSF_AutoTest, enabled)

startChip(w) == setControlRegisterBits(w, CR_ShutdownAndOpenShort, SOSF_Shutdown)

stopChip(w) == clearControlRegisterBits(w, CR_ShutdownAndOpenShort, SOSF_Shutdown)

(***************************************************************************)
(* Status and fault queries.                                               *)
(***************************************************************************)
\* Mutant: the test of the low nibble is left out.
getLedStatusNoNibbleTest(w, ledIndex) ==
    IF ledIndex > 186
    THEN [w EXCEPT !.ret = RetStatus(LedStatusDisabled)]
    ELSE LET ledBitMask    == 2^(And(ledIndex, 7))
             registerIndex == U8(CR_OpenLedBase + (ledIndex \div 8))
         IN  Then(readFromMemory(w, RS_Control, registerIndex), LAMBDA w1 :
                 IF And(w1.val, ledBitMask) = 0
                 THEN [w1 EXCEPT !.ret = RetStatus(LedStatusOpen)]
                 ELSE [w1 EXCEPT !.ret = RetStatus(LedStatusOk)])

\* Mutant: the register is indexed by the segment, ledIndex >> 4.
getLedStatusBySegment(w, ledIndex) ==
    IF ledIndex > 186
    THEN [w EXCEPT !.ret = RetStatus(LedStatusDisabled)]
    ELSE IF And(ledIndex, 15) > 10
    THEN [w EXCEPT !.ret = RetStatus(LedStatusDisabled)]
    ELSE LET ledBitMask    == 2^(And(ledIndex, 7))
             registerIndex == U8(CR_OpenLedBase + (ledIndex \div 16))
         IN  Then(readFromMemory(w, RS_Control, registerIndex), LAMBDA w1 :
                 IF And(w1.val, ledBitMask) = 0
                 THEN [w1 EXCEPT !.ret = RetStatus(LedStatusOpen)]
                 ELSE [w1 EXCEPT !.ret = RetStatus(LedStatusOk)])

getLedStatus(w, ledIndex) ==
    IF ledIndex > 186
    THEN [w EXCEPT !.ret = RetStatus(LedStatusDisabled)]
    ELSE IF And(ledIndex, 15) > 10
    THEN [w EXCEPT !.ret = RetStatus(LedStatusDisabled)]
    ELSE LET ledBitMask    == 2^(And(ledIndex, 7))
             registerIndex == U8(CR_OpenLedBase + (ledIndex \div 8))
         IN  Then(readFromMemory(w, RS_Control, registerIndex), LAMBDA w1 :
                 IF And(w1.val, ledBitMask) = 0
                 THEN [w1 EXCEPT !.ret = RetStatus(LedStatusOpen)]
                 ELSE [w1 EXCEPT !.ret = RetStatus(LedStatusOk)])

isLedTestRunning(w) ==
    Then(readControlRegister(w, CR_Status), LAMBDA w1 :
        [w1 EXCEPT !.ret = RetBool(And(w1.val, Status_TestOn) # 0)])

isMovieRunning(w) ==
    Then(readControlRegister(w, CR_Status), LAMBDA w1 :
        [w1 EXCEPT !.ret = RetBool(And(w1.val, Status_MovieOn) # 0)])

getDisplayedFrame(w) ==
    Then(readControlRegister(w, CR_Status), LAMBDA w1 :
        [w1 EXCEPT !.ret = RetByte(w1.val \div 4)])

getInterruptStatus(w) ==
    Then(readControlRegister(w, CR_InterruptStatus), LAMBDA w1 :
        [w1 EXCEPT !.ret = RetByte(w1.val)])

(***************************************************************************)
(* The driver as a state machine.  A call other than runManualTest is one  *)
(* step; runManualTest is a step per statement of its loop.                *)
(***************************************************************************)
NoCall == [op |-> "none", args |-> <<>>]

Op(name, args) == [op |-> name, args |-> args]

World(fail) ==
    [sel |-> sel, ptr |-> ptr, mem |-> mem, trace |-> <<>>, fail |-> fail,
     val |-> 0, ok |-> FALSE, ret |-> RetVoid]

\* At most this many single transactions of a step fail while the others succeed.
MaxFaults == 1

\* The transactions the chip may leave unacknowledged in a step of n
\* transactions: none on a responsive chip; otherwise all of them (the chip is
\* absent) or, in a step of one register access, up to MaxFaults of them.
Faults(n) ==
    IF env = "responsive" THEN {{}}
    ELSE IF n <= 5 THEN {f \in SUBSET (1..n) : Cardinality(f) <= MaxFaults} \cup {1..n}
    ELSE {{}, 1..n}

\* The step's effect on the chip and the bus.
Effect(w) ==
    /\ sel' = w.sel
    /\ ptr' = w.ptr
    /\ mem' = w.mem
    /\ after' = w.mem
    /\ trace' = w.trace

\* A whole call in one step: c names the call and F is what it does to the world.
Atomic(c, F(_)) ==
    /\ LET n == Len(F(World({})).trace) IN
       \E fail \in Faults(n) :
           \E w \in {F(World(fail))} :
           /\ Effect(w)
           /\ ret' = w.ret
           /\ responded' = w.ok
    /\ call' = c
    /\ prevCall' = call
    /\ before' = mem
    /\ delayed' = FALSE
    /\ lastPoll' = "none"
    /\ UNCHANGED <<pc, env>>

(***************************************************************************)
(* runManualTest, statement by statement.                                  *)
(***************************************************************************)
ShutdownCell == <<RS_Control, CR_ShutdownAndOpenShort>>

StatusCell == <<RS_Control, CR_Status>>

MemAt(m, cell) == IF cell \in DOMAIN m THEN m[cell] ELSE 0

\* Mutant: the loop condition is inverted (waits while the test is not running).
runManualTestNextInverted(at, testRunning) ==
    CASE at = "idle" -> "mt_poll"
      [] at = "mt_poll" -> IF ~testRunning THEN "mt_delay" ELSE "mt_clear"
      [] at = "mt_delay" -> "mt_poll"
      [] at = "mt_clear" -> "idle"

\* Where runManualTest goes from position `at`; testRunning is the value
\* isLedTestRunning() returned when `at` is the loop condition.
runManualTestNext(at, testRunning) ==
    CASE at = "idle" -> "mt_poll"
      [] at = "mt_poll" -> IF testRunning THEN "mt_delay" ELSE "mt_clear"
      [] at = "mt_delay" -> "mt_poll"
      [] at = "mt_clear" -> "idle"

\* The chip runs the LED test once the manual-test bit is written; it shows
\* in the status register while the test lasts, which may be no time at all.
ChipStartsTest(m, starts) ==
    IF starts /\ And(MemAt(m, ShutdownCell), SOSF_ManualTest) # 0
    THEN Store(m, StatusCell, Or(MemAt(m, StatusCell), Status_TestOn))
    ELSE m

\* setControlRegisterBits(CR_ShutdownAndOpenShort, SOSF_ManualTest);
RunManualTestEnter ==
    /\ pc = "idle"
    /\ \E fail \in Faults(5), starts \in BOOLEAN :
           \E w \in {setControlRegisterBits(World(fail), CR_ShutdownAndOpenShort,
                                            SOSF_ManualTest)} :
           /\ sel' = w.sel
           /\ ptr' = w.ptr
           /\ trace' = w.trace
           /\ mem' = ChipStartsTest(w.mem, starts)
           /\ after' = mem'
           /\ responded' = w.ok
    /\ pc' = runManualTestNext(pc, FALSE)
    /\ call' = Op("runManualTest", <<>>)
    /\ prevCall' = call
    /\ before' = mem
    /\ delayed' = FALSE
    /\ lastPoll' = "none"
    /\ UNCHANGED <<ret, env>>

\* while (isLedTestRunning())
RunManualTestPoll ==
    /\ pc = "mt_poll"
    /\ \E fail \in Faults(3) :
           \E w \in {isLedTestRunning(World(fail))} :
           /\ Effect(w)
           /\ responded' = (responded \/ w.ok)
           /\ lastPoll' = IF w.ret.b THEN "running" ELSE "idle"
           /\ pc' = runManualTestNext(pc, w.ret.b)
    /\ UNCHANGED <<ret, call, env, before, prevCall, delayed>>

\* delay(10);
RunManualTestDelay ==
    /\ pc = "mt_delay"
    /\ pc' = runManualTestNext(pc, FALSE)
    /\ delayed' = TRUE
    /\ trace' = <<>>
    /\ UNCHANGED <<sel, ptr, mem, ret, call, env, before, after, prevCall,
                   responded, lastPoll>>

\* clearControlRegisterBits(CR_ShutdownAndOpenShort, SOSF_ManualTest);
RunManualTestExit ==
    /\ pc = "mt_clear"
    /\ \E fail \in Faults(5) :
           \E w \in {clearControlRegisterBits(World(fail), CR_ShutdownAndOpenShort,
                                              SOSF_ManualTest)} :
           /\ Effect(w)
           /\ responded' = (responded \/ w.ok)
    /\ pc' = runManualTestNext(pc, FALSE)
    /\ ret' = RetVoid
    /\ UNCHANGED <<call, env, before, prevCall, delayed, lastPoll>>

\* The chip finishes its LED test: the status register's test bit clears.
ChipTestFinish ==
    /\ And(MemAt(mem, StatusCell), Status_TestOn) # 0
    /\ mem' = Store(mem, StatusCell, And(MemAt(mem, StatusCell), Not8(Status_TestOn)))
    /\ UNCHANGED <<sel, ptr, trace, ret, call, pc, env, before, after, prevCall,
                   responded, delayed, lastPoll>>

(***************************************************************************)
(* The calls as actions.                                                   *)
(***************************************************************************)
IsChipConnected ==
    /\ pc = "idle"
    /\ Atomic(Op("isChipConnected", <<>>),
              LAMBDA w : isChipConnected(w))

StartChip ==
    /\ pc = "idle"
    /\ Atomic(Op("startChip", <<>>),
              LAMBDA w : startChip(w))

StopChip ==
    /\ pc = "idle"
    /\ Atomic(Op("stopChip", <<>>),
              LAMBDA w : stopChip(w))

IsLedTestRunning ==
    /\ pc = "idle"
    /\ Atomic(Op("isLedTestRunning", <<>>),
              LAMBDA w : isLedTestRunning(w))

(***************************************************************************)
(* Spec: master enable and manual test on a chip that acknowledges every   *)
(* transaction, from any content of the shutdown/open-short register.      *)
(* SpecFaulty: the same driver on a bus where transactions may fail.       *)
(***************************************************************************)
InitCommon ==
    /\ sel = RS_NOP
    /\ ptr = 0
    /\ trace = <<>>
    /\ ret = RetVoid
    /\ call = NoCall
    /\ prevCall = NoCall
    /\ pc = "idle"
    /\ responded = FALSE
    /\ delayed = FALSE
    /\ lastPoll = "none"

\* Contents of the shutdown/open-short register before the driver's first
\* call: the shutdown and manual-test bits in every combination, alone and
\* among other bits.
RegisterSamples == {0, 1, 4, 5, 24, 165, 250, 255}

InitRegisters ==
    \E v \in RegisterSamples, s \in {0, Status_TestOn} :
        /\ mem = (ShutdownCell :> v) @@ (StatusCell :> s)
        /\ before = mem
        /\ after = mem

Init ==
    /\ InitCommon
    /\ InitRegisters
    /\ env = "responsive"

InitFaulty ==
    /\ InitCommon
    /\ InitRegisters
    /\ env = "faulty"

Next ==
    \/ IsChipConnected
    \/ StartChip
    \/ StopChip
    \/ IsLedTestRunning
    \/ RunManualTestEnter
    \/ RunManualTestPoll
    \/ RunManualTestDelay
    \/ RunManualTestExit
    \/ ChipTestFinish

\* The driver is sequential code: a call in progress executes its next
\* statement, which takes it to another position.
Advance ==
    /\ pc \in {"mt_poll", "mt_delay", "mt_clear"}
    /\ pc' \in {"idle", "mt_poll", "mt_delay", "mt_clear"}
    /\ pc' # pc

Progress == WF_pc(Advance)

Spec == Init /\ [][Next]_vars /\ Progress

NextFaulty ==
    \/ IsLedTestRunning
    \/ RunManualTestEnter
    \/ RunManualTestPoll
    \/ RunManualTestDelay
    \/ RunManualTestExit
    \/ ChipTestFinish

SpecFaulty == InitFaulty /\ [][NextFaulty]_vars /\ Progress

(***************************************************************************)
(* Properties of the master enable and of the manual test.                 *)
(***************************************************************************)
InManualTest == call.op = "runManualTest" /\ pc # "idle"

ManualTestBit(m) == And(MemAt(m, ShutdownCell), SOSF_ManualTest) # 0

TestRunningBit(m) == And(MemAt(m, StatusCell), Status_TestOn) # 0

\* The byte the latest step read from the chip (NoByte when none was available).
ByteRead == IF Len(trace) = 3 /\ trace[3].k = "read" THEN trace[3].d ELSE NoByte

\* C8: stopChip is idempotent: a second stopChip() right after a first one
\* returns with the whole chip memory as it found it, that is as the first
\* call (and the chip since) left it, with the shutdown bit clear and every
\* other bit of the shutdown/open-short register as it was.
C8_StopChipIdempotent ==
    (pc = "idle" /\ call.op = "stopChip" /\ prevCall.op = "stopChip")
        => /\ after = before
           /\ And(MemAt(after, ShutdownCell), SOSF_Shutdown) = 0

C8_Witness ==
    /\ pc = "idle"
    /\ call.op = "stopChip"
    /\ prevCall.op = "stopChip"
    /\ MemAt(after, ShutdownCell) = 254

C9_Order ==
    /\ (InManualTest /\ pc = "mt_poll" /\ lastPoll = "none") => ManualTestBit(mem)
    /\ (InManualTest /\ pc = "mt_delay") => (lastPoll = "running" /\ ManualTestBit(mem))
    /\ (InManualTest /\ pc = "mt_clear") => (lastPoll = "idle" /\ ManualTestBit(mem))
    /\ (call.op = "runManualTest" /\ pc = "idle") =>
           (lastPoll = "idle" /\ ~ManualTestBit(mem))

C9_Step ==
    /\ (pc = "mt_poll" /\ pc' # pc) =>
           /\ Len(trace') = 3 /\ trace'[3].k = "read" /\ trace'[3].a = CR_Status
           /\ pc' = (IF And(trace'[3].d, Status_TestOn) # 0 THEN "mt_delay" ELSE "mt_clear")
    /\ (pc = "mt_delay" /\ pc' # pc) => (pc' = "mt_poll" /\ delayed')
    /\ (InManualTest /\ ManualTestBit(mem) /\ ~ManualTestBit(mem')) =>
           (pc = "mt_clear" /\ lastPoll = "idle")

\* C9: runManualTest sets the manual-test bit before the first status poll,
\* polls the status register, with a delay between polls, as long as the
\* test-running bit reads set, clears the manual-test bit only after a poll
\* has read the test-running bit clear, and, once the chip has cleared the
\* test-running bit, returns with the manual-test bit cleared.
C9_ManualTest ==
    /\ []C9_Order
    /\ [][C9_Step]_vars
    /\ ((InManualTest /\ ~TestRunningBit(mem)) ~>
            (pc = "idle" /\ call.op = "runManualTest" /\ ~ManualTestBit(mem)))

C9_Witness ==
    /\ pc = "idle"
    /\ call.op = "runManualTest"
    /\ delayed
    /\ lastPoll = "idle"
    /\ ~ManualTestBit(mem)

\* C7 as claimed: a call of runManualTest that the chip never answered (no
\* write acknowledged, no read answered) has not returned.
C7_UnansweredNeverReturns ==
    ~(pc = "idle" /\ call.op = "runManualTest" /\ ~responded)

\* C7 as amended: runManualTest has no timeout; it leaves its loop only
\* after a status poll has read the test-running bit clear, so a chip that
\* keeps reporting the test as running stalls the caller.  A chip that never
\* responds does not stall it: the poll's failed read falls back to zero,
\* and the call goes on to return without ever waiting.
C7_NoTimeout ==
    /\ (call.op = "runManualTest" /\ pc \in {"mt_clear", "idle"}) => lastPoll = "idle"
    /\ (call.op = "runManualTest" /\ pc = "mt_delay") => lastPoll = "running"
    /\ (call.op = "runManualTest" /\ ~responded) => (~delayed /\ pc # "mt_delay")

C7_Witness ==
    /\ pc = "idle"
    /\ call.op = "runManualTest"
    /\ ~responded
    /\ ~delayed
    /\ lastPoll = "idle"

(***************************************************************************)
(* SpecRmw: one writeControlRegisterBits call on a responsive chip, from    *)
(* sampled register contents.  SpecDelay: one setFrameDelayMs call.         *)
(***************************************************************************)
\* Number of sampled byte values.
NumSamples == 8

\* Bytes spread over the 8-bit range: 0x00, 0x49, 0x92, 0xDB, 0x24, 0x6D, 0xB6, 0xFF, ...
ByteSamples == {U8(i * 73) : i \in 0..(NumSamples - 1)}

ControlRegisters ==
    {CR_Picture, CR_Movie, CR_MovieMode, CR_FrameTimeScroll, CR_DisplayOption,
     CR_CurrentSource, CR_Config, CR_InterruptMask, CR_InterruptFrameDefinition,
     CR_ShutdownAndOpenShort, CR_InterfaceMonitoring, CR_ClockSynchronization,
     CR_InterruptStatus, CR_Status}

\* The masks the driver's setters pass to writeControlRegisterBits.
FieldMasks ==
    {CF_MemoryConfigMask, DOF_ScanLimitMask, MMF_MovieFramesMask, FTSF_FrameDelay,
     DOF_LoopsMask, MMF_BlinkEnabled, MMF_EndLast, FTSF_EnableScrolling,
     FTSF_BlockSize, SOSF_ManualTest, SOSF_Shutdown}

\* Every control register holds a byte of its own: v combined with its address.
InitControlBank ==
    \E v \in ByteSamples :
        /\ mem = [c \in {<<RS_Control, r>> : r \in ControlRegisters} |-> Xor(v, c[2])]
        /\ before = mem
        /\ after = mem

InitRmw ==
    /\ InitCommon
    /\ InitControlBank
    /\ env = "responsive"

WriteControlRegisterBits ==
    /\ pc = "idle"
    /\ call = NoCall
    /\ \E r \in ControlRegisters, mask \in ByteSamples \cup FieldMasks, data \in ByteSamples :
           Atomic(Op("writeControlRegisterBits", <<r, mask, data>>),
                  LAMBDA w : writeControlRegisterBits(w, r, mask, data))

NextRmw == WriteControlRegisterBits

SpecRmw == InitRmw /\ [][NextRmw]_vars

\* Largest delay passed to setFrameDelayMs.
MaxDelayMs == 10000

SetFrameDelayMs ==
    /\ pc = "idle"
    /\ call = NoCall
    /\ \E delayMs \in 0..MaxDelayMs :
           Atomic(Op("setFrameDelayMs", <<delayMs>>),
                  LAMBDA w : setFrameDelayMs(w, delayMs))

NextDelay == SetFrameDelayMs

SpecDelay == InitRmw /\ [][NextDelay]_vars

\* C2: after writeControlRegisterBits(register, mask, data) every bit of the
\* register inside the mask equals that bit of data, every bit outside the
\* mask is as it was, and no other cell of the chip memory has changed.
C2_MaskedWrite ==
    (call.op = "writeControlRegisterBits") =>
        LET cell == <<RS_Control, call.args[1]>>
            mask == call.args[2]
            data == call.args[3]
        IN  /\ \A i \in 0..7 :
                   Bit(MemAt(after, cell), i) =
                       IF Bit(mask, i) = 1 THEN Bit(data, i) ELSE Bit(MemAt(before, cell), i)
            /\ DOMAIN after = DOMAIN before
            /\ \A c \in DOMAIN before : c # cell => after[c] = before[c]

C2_Witness ==
    /\ call.op = "writeControlRegisterBits"
    /\ LET cell == <<RS_Control, call.args[1]>>
           mask == call.args[2]
       IN  /\ \E i \in 0..7 : Bit(mask, i) = 0 /\ Bit(MemAt(before, cell), i) = 1
           /\ \E i \in 0..7 : Bit(mask, i) = 1 /\ Bit(MemAt(before, cell), i) = 1
                                               /\ Bit(MemAt(after, cell), i) = 0
           /\ \E i \in 0..7 : Bit(mask, i) = 1 /\ Bit(MemAt(before, cell), i) = 0
                                               /\ Bit(MemAt(after, cell), i) = 1

\* The frame-delay field of the byte the latest call wrote to the
\* frame-time/scroll register.
FrameDelayFieldWritten == trace[Len(trace)].d % 16

\* C3: for every 16-bit delayMs, setFrameDelayMs writes min(15, delayMs*10/325)
\* into the frame-delay field.
C3_FrameDelayScaled ==
    (call.op = "setFrameDelayMs") =>
        /\ trace[Len(trace)].k = "write"
        /\ trace[Len(trace)].a = CR_FrameTimeScroll
        /\ FrameDelayFieldWritten = Min(15, (call.args[1] * 10) \div 325)
        /\ MemAt(after, <<RS_Control, CR_FrameTimeScroll>>) % 16
               = Min(15, (call.args[1] * 10) \div 325)

(***************************************************************************)
(* SpecFrame: one frame-writing call on a responsive chip after power-on.   *)
(***************************************************************************)
Pixels == (0..23) \X (0..4)

RECURSIVE MaskByteFrom(_, _, _)
MaskByteFrom(P, k, b) ==
    IF b > 7 THEN 0
    ELSE (IF <<(k % 3) * 8 + (7 - b), k \div 3>> \in P THEN 2^b ELSE 0)
         + MaskByteFrom(P, k, b + 1)

\* The caller's packed bitmap with exactly the pixels of P set: 3 bytes a row,
\* 5 rows, the leftmost column in the most significant bit.
MaskOf(P) ==
    <<MaskByteFrom(P, 0, 0), MaskByteFrom(P, 1, 0), MaskByteFrom(P, 2, 0),
      MaskByteFrom(P, 3, 0), MaskByteFrom(P, 4, 0), MaskByteFrom(P, 5, 0),
      MaskByteFrom(P, 6, 0), MaskByteFrom(P, 7, 0), MaskByteFrom(P, 8, 0),
      MaskByteFrom(P, 9, 0), MaskByteFrom(P, 10, 0), MaskByteFrom(P, 11, 0),
      MaskByteFrom(P, 12, 0), MaskByteFrom(P, 13, 0), MaskByteFrom(P, 14, 0)>>

\* The source masks drawn: no pixel, one pixel, the three pixels at the two
\* corners and in the middle, and the complements of these.
PixelSets == {{}} \cup {{p} : p \in Pixels} \cup {{<<0, 0>>, <<12, 2>>, <<23, 4>>}}

SourceMasks == {MaskOf(P) : P \in PixelSets} \cup {MaskOf(Pixels \ P) : P \in PixelSets}

\* The first and the last frame of the chip.
FrameIndexes == {0, 35}

InitFrame ==
    /\ InitCommon
    /\ mem = << >>
    /\ before = mem
    /\ after = mem
    /\ env = "responsive"

SetOnOffFrame24x5 ==
    /\ pc = "idle"
    /\ call = NoCall
    /\ \E frameIndex \in FrameIndexes, data \in SourceMasks, pwmSetIndex \in 0..7 :
           Atomic(Op("setOnOffFrame24x5", <<frameIndex, data, pwmSetIndex>>),
                  LAMBDA w : setOnOffFrame24x5(w, frameIndex, data, pwmSetIndex))

SetOnOffFrameAllOn ==
    /\ pc = "idle"
    /\ call = NoCall
    /\ \E frameIndex \in FrameIndexes, pwmSetIndex \in 0..7 :
           Atomic(Op("setOnOffFrameAllOn", <<frameIndex, pwmSetIndex>>),
                  LAMBDA w : setOnOffFrameAllOn(w, frameIndex, pwmSetIndex))

NextFrame == SetOnOffFrameAllOn \/ SetOnOffFrame24x5

SpecFrame == InitFrame /\ [][NextFrame]_vars

\* The transactions of the latest call that wrote a data byte at address a.
DataWrites(a) == {j \in 1..Len(trace) : trace[j].k = "write" /\ trace[j].a = a}

\* The byte the latest call wrote at address a of the frame: its transactions
\* are, for each address in turn, the bank select and the data write.
FrameByte(a) == trace[2 * a + 2].d

FrameWrittenOnce ==
    /\ Len(trace) = 2 * finalDataSize
    /\ \A a \in 0..(finalDataSize - 1) :
           /\ DataWrites(a) = {2 * a + 2}
           /\ MemAt(after, <<U8(RS_OnOffFrame + call.args[1]), a>>) = FrameByte(a)

\* The buffer bit the frame layout gives the LED of pixel p = (x, y).
LedCell(p) ==
    LET index == p[2] + 5 * p[1]
    IN  <<2 * (index \div 10) + (IF index % 10 >= 8 THEN 1 ELSE 0), (index % 10) % 8>>

LedCells == {LedCell(p) : p \in Pixels}

SourceBit(data, p) == Bit(data[3 * p[2] + (p[1] \div 8) + 1], 7 - (p[1] % 8)) = 1

\* C4: the 24 bytes setOnOffFrame24x5 writes have the bit of LED y + 5x set
\* exactly when source bit (x, y) is set, distinct pixels have distinct bits,
\* and the only other bits set are bits 5-7 of byte 1, which hold pwmSetIndex.
C4_FrameBitMapping ==
    (call.op = "setOnOffFrame24x5") =>
        /\ FrameWrittenOnce
        /\ \A p \in Pixels :
               (Bit(FrameByte(LedCell(p)[1]), LedCell(p)[2]) = 1) <=> SourceBit(call.args[2], p)
        /\ Cardinality(LedCells) = Cardinality(Pixels)
        /\ \A a \in 0..(finalDataSize - 1), b \in 0..7 :
               (Bit(FrameByte(a), b) = 1 /\ <<a, b>> \notin LedCells) => (a = 1 /\ b >= 5)
        /\ FrameByte(1) \div 32 = call.args[3]

C4_Witness ==
    /\ call.op = "setOnOffFrame24x5"
    /\ call.args[3] = 5
    /\ SourceBit(call.args[2], <<23, 4>>)
    /\ \A p \in Pixels : p # <<23, 4>> => ~SourceBit(call.args[2], p)
    /\ FrameByte(23) = 2
    /\ FrameByte(1) = 160

\* An LED of the chip: segment in the high nibble, LED of the segment in the low.
IsLedOfChip(ledIndex) == ledIndex <= 186 /\ (ledIndex % 16) <= 10

C5_BytesWritten ==
    (call.op = "setOnOffFrameAllOn") =>
        /\ FrameWrittenOnce
        /\ \A i \in 0..11 : FrameByte(2 * i) = 255
        /\ FrameByte(1) = 32 * call.args[2] + 3
        /\ \A i \in 1..11 : FrameByte(2 * i + 1) = 7
        /\ \A p \in Pixels : Bit(FrameByte(LedCell(p)[1]), LedCell(p)[2]) = 1

(***************************************************************************)
(* SpecLed: one getLedStatus call, the chip present, absent or failing a    *)
(* single transaction, from sampled contents of the open-LED registers.     *)
(* The NOP bank, selected at the start, holds other bytes at the same       *)
(* addresses.                                                               *)
(***************************************************************************)
\* The 24 registers of the open-LED bitmap.
OpenLedRegisters == {U8(CR_OpenLedBase + i) : i \in 0..23}

InitLed ==
    /\ InitCommon
    /\ \E v \in ByteSamples, c \in ByteSamples :
           /\ mem = [cell \in ({RS_Control} \X OpenLedRegisters) \cup ({RS_NOP} \X OpenLedRegisters)
                        |-> IF cell[1] = RS_Control THEN Xor(v, cell[2]) ELSE c]
           /\ before = mem
           /\ after = mem
    /\ env = "faulty"

GetLedStatus ==
    /\ pc = "idle"
    /\ call = NoCall
    /\ \E ledIndex \in Byte :
           Atomic(Op("getLedStatus", <<ledIndex>>),
                  LAMBDA w : getLedStatus(w, ledIndex))

NextLed == GetLedStatus

SpecLed == InitLed /\ [][NextLed]_vars

LedIndexValid(ledIndex) == ledIndex <= 186 /\ (ledIndex % 16) <= 10

\* C1: for an ledIndex above 0xBA or with a low nibble above 0xA, getLedStatus
\* returns Disabled without a single bus transaction, so that the chip is as
\* it was, whether or not it would have answered.
C1_InvalidIndexDisabled ==
    (call.op = "getLedStatus" /\ ~LedIndexValid(call.args[1])) =>
        /\ ret = RetStatus(LedStatusDisabled)
        /\ trace = << >>
        /\ after = before
        /\ ~responded

C1_Witness ==
    /\ call.op = "getLedStatus"
    /\ call.args[1] = 11
    /\ env = "faulty"
    /\ ret = RetStatus(LedStatusDisabled)
    /\ trace = << >>

\* C10: for a valid ledIndex getLedStatus selects the control bank, addresses
\* the open-LED register base + (ledIndex >> 3) and requests one byte; it
\* returns Ok when bit (ledIndex & 7) of the byte received is 1, Open when it
\* is 0 or when no byte was received, and never Disabled.  When the chip
\* answers all three transactions the byte is the register's content.
C10_ValidIndexStatus ==
    (call.op = "getLedStatus" /\ LedIndexValid(call.args[1])) =>
        LET ledIndex == call.args[1]
            register == CR_OpenLedBase + (ledIndex \div 8)
        IN  /\ Len(trace) = 3
            /\ trace[1].k = "write" /\ trace[1].a = cRegisterSelectionAddress
                                    /\ trace[1].d = RS_Control
            /\ trace[2].k = "addr" /\ trace[2].a = register
            /\ trace[3].k = "read"
            /\ ret # RetStatus(LedStatusDisabled)
            /\ ret = IF trace[3].d = NoByte THEN RetStatus(LedStatusOpen)
                     ELSE IF Bit(trace[3].d, ledIndex % 8) = 1 THEN RetStatus(LedStatusOk)
                     ELSE RetStatus(LedStatusOpen)
            /\ (sel = RS_Control /\ ptr = register /\ trace[3].d # NoByte)
                   => trace[3].d = MemAt(before, <<RS_Control, register>>)

C10_Witness ==
    /\ call.op = "getLedStatus"
    /\ call.args[1] = 186
    /\ Len(trace) = 3
    /\ trace[3].d # NoByte
    /\ Bit(trace[3].d, 2) = 1
    /\ trace[3].d = MemAt(before, <<RS_Control, CR_OpenLedBase + 23>>)
    /\ ret = RetStatus(LedStatusOk)

(***************************************************************************)
(* SpecAll: every public operation of the driver, with a few arguments      *)
(* each, on a responsive chip after power-on.  A second call follows a      *)
(* first one, so that each operation starts with every bank selected that   *)
(* some operation leaves selected; no third call follows.                   *)
(***************************************************************************)
MayCall == pc = "idle" /\ prevCall = NoCall

IsChipConnectedCall ==
    /\ MayCall
    /\ Atomic(Op("isChipConnected", << >>),
              LAMBDA w : isChipConnected(w))

SetRamConfigurationCall ==
    /\ MayCall
    /\ \E a1 \in {1, 6} :
           Atomic(Op("setRamConfiguration", <<a1>>),
                  LAMBDA w : setRamConfiguration(w, a1))

SetOnOffFrame24x5Call ==
    /\ MayCall
    /\ \E a1 \in FrameIndexes, a2 \in {MaskOf({<<0, 0>>, <<12, 2>>, <<23, 4>>})}, a3 \in {0, 5} :
           Atomic(Op("setOnOffFrame24x5", <<a1, a2, a3>>),
                  LAMBDA w : setOnOffFrame24x5(w, a1, a2, a3))

SetOnOffFrameAllOnCall ==
    /\ MayCall
    /\ \E a1 \in FrameIndexes, a2 \in {0, 7} :
           Atomic(Op("setOnOffFrameAllOn", <<a1, a2>>),
                  LAMBDA w : setOnOffFrameAllOn(w, a1, a2))

SetBlinkAndPwmSetAllCall ==
    /\ MayCall
    /\ \E a1 \in {0, 5}, a2 \in BOOLEAN, a3 \in {128} :
           Atomic(Op("setBlinkAndPwmSetAll", <<a1, a2, a3>>),
                  LAMBDA w : setBlinkAndPwmSetAll(w, a1, a2, a3))

SetDotCorrectionCall ==
    /\ MayCall
    /\ \E a1 \in {<<1, 2, 3, 4, 5, 6, 7, 8, 9, 10, 11, 12>>} :
           Atomic(Op("setDotCorrection", <<a1>>),
                  LAMBDA w : setDotCorrection(w, a1))

SetInterruptMaskCall ==
    /\ MayCall
    /\ \E a1 \in {0, 255} :
           Atomic(Op("setInterruptMask", <<a1>>),
                  LAMBDA w : setInterruptMask(w, a1))

SetInterruptFrameCall ==
    /\ MayCall
    /\ \E a1 \in FrameIndexes :
           Atomic(Op("setInterruptFrame", <<a1>>),
                  LAMBDA w : setInterruptFrame(w, a1))

SetInterfaceMonitoringCall ==
    /\ MayCall
    /\ \E a1 \in {0, 63}, a2 \in BOOLEAN :
           Atomic(Op("setInterfaceMonitoring", <<a1, a2>>),
                  LAMBDA w : setInterfaceMonitoring(w, a1, a2))

SetClockSynchronizationCall ==
    /\ MayCall
    /\ \E a1 \in {0, 2}, a2 \in {0, 12} :
           Atomic(Op("setClockSynchronization", <<a1, a2>>),
                  LAMBDA w : setClockSynchronization(w, a1, a2))

SetCurrentSourceCall ==
    /\ MayCall
    /\ \E a1 \in {0, 255} :
           Atomic(Op("setCurrentSource", <<a1>>),
                  LAMBDA w : setCurrentSource(w, a1))

SetScanLimitCall ==
    /\ MayCall
    /\ \E a1 \in {0, 11} :
           Atomic(Op("setScanLimit", <<a1>>),
                  LAMBDA w : setScanLimit(w, a1))

SetBlinkEnabledCall ==
    /\ MayCall
    /\ \E a1 \in BOOLEAN :
           Atomic(Op("setBlinkEnabled", <<a1>>),
                  LAMBDA w : setBlinkEnabled(w, a1))

StartPictureCall ==
    /\ MayCall
    /\ \E a1 \in FrameIndexes, a2 \in BOOLEAN :
           Atomic(Op("startPicture", <<a1, a2>>),
                  LAMBDA w : startPicture(w, a1, a2))

StopPictureCall ==
    /\ MayCall
    /\ Atomic(Op("stopPicture", << >>),
              LAMBDA w : stopPicture(w))

SetMovieEndFrameCall ==
    /\ MayCall
    /\ \E a1 \in BOOLEAN :
           Atomic(Op("setMovieEndFrame", <<a1>>),
                  LAMBDA w : setMovieEndFrame(w, a1))

SetMovieFrameCountCall ==
    /\ MayCall
    /\ \E a1 \in {1, 36} :
           Atomic(Op("setMovieFrameCount", <<a1>>),
                  LAMBDA w : setMovieFrameCount(w, a1))

SetFrameDelayMsCall ==
    /\ MayCall
    /\ \E a1 \in {0, 325, 10000} :
           Atomic(Op("setFrameDelayMs", <<a1>>),
                  LAMBDA w : setFrameDelayMs(w, a1))

SetScrollingEnabledCall ==
    /\ MayCall
    /\ \E a1 \in BOOLEAN :
           Atomic(Op("setScrollingEnabled", <<a1>>),
                  LAMBDA w : setScrollingEnabled(w, a1))

SetScrollingBlockSizeCall ==
    /\ MayCall
    /\ \E a1 \in BOOLEAN :
           Atomic(Op("setScrollingBlockSize", <<a1>>),
                  LAMBDA w : setScrollingBlockSize(w, a1))

SetScrollingDirectionCall ==
    /\ MayCall
    /\ \E a1 \in BOOLEAN :
           Atomic(Op("setScrollingDirection", <<a1>>),
                  LAMBDA w : setScrollingDirection(w, a1))

SetFrameFadingEnabledCall ==
    /\ MayCall
    /\ \E a1 \in BOOLEAN :
           Atomic(Op("setFrameFadingEnabled", <<a1>>),
                  LAMBDA w : setFrameFadingEnabled(w, a1))

SetBlinkFrequencyCall ==
    /\ MayCall
    /\ \E a1 \in BOOLEAN :
           Atomic(Op("setBlinkFrequency", <<a1>>),
                  LAMBDA w : setBlinkFrequency(w, a1))

SetMovieLoopCountCall ==
    /\ MayCall
    /\ \E a1 \in {0, 224} :
           Atomic(Op("setMovieLoopCount", <<a1>>),
                  LAMBDA w : setMovieLoopCount(w, a1))

StartMovieCall ==
    /\ MayCall
    /\ \E a1 \in FrameIndexes, a2 \in BOOLEAN :
           Atomic(Op("startMovie", <<a1, a2>>),
                  LAMBDA w : startMovie(w, a1, a2))

StopMovieCall ==
    /\ MayCall
    /\ Atomic(Op("stopMovie", << >>),
              LAMBDA w : stopMovie(w))

SetLowVddResetEnabledCall ==
    /\ MayCall
    /\ \E a1 \in BOOLEAN :
           Atomic(Op("setLowVddResetEnabled", <<a1>>),
                  LAMBDA w : setLowVddResetEnabled(w, a1))

SetLowVddStatusEnabledCall ==
    /\ MayCall
    /\ \E a1 \in BOOLEAN :
           Atomic(Op("setLowVddStatusEnabled", <<a1>>),
                  LAMBDA w : setLowVddStatusEnabled(w, a1))

SetLedErrorCorrectionEnabledCall ==
    /\ MayCall
    /\ \E a1 \in BOOLEAN :
           Atomic(Op("setLedErrorCorrectionEnabled", <<a1>>),
                  LAMBDA w : setLedErrorCorrectionEnabled(w, a1))

SetDotCorrectionEnabledCall ==
    /\ MayCall
    /\ \E a1 \in BOOLEAN :
           Atomic(Op("setDotCorrectionEnabled", <<a1>>),
                  LAMBDA w : setDotCorrectionEnabled(w, a1))

SetTestAllLedsEnabledCall ==
    /\ MayCall
    /\ \E a1 \in BOOLEAN :
           Atomic(Op("setTestAllLedsEnabled", <<a1>>),
                  LAMBDA w : setTestAllLedsEnabled(w, a1))

SetAutomaticTestEnabledCall ==
    /\ MayCall
    /\ \E a1 \in BOOLEAN :
           Atomic(Op("setAutomaticTestEnabled", <<a1>>),
                  LAMBDA w : setAutomaticTestEnabled(w, a1))

StartChipCall ==
    /\ MayCall
    /\ Atomic(Op("startChip", << >>),
              LAMBDA w : startChip(w))

StopChipCall ==
    /\ MayCall
    /\ Atomic(Op("stopChip", << >>),
              LAMBDA w : stopChip(w))

GetLedStatusCall ==
    /\ MayCall
    /\ \E a1 \in {0, 11, 186, 255} :
           Atomic(Op("getLedStatus", <<a1>>),
                  LAMBDA w : getLedStatus(w, a1))

IsLedTestRunningCall ==
    /\ MayCall
    /\ Atomic(Op("isLedTestRunning", << >>),
              LAMBDA w : isLedTestRunning(w))

IsMovieRunningCall ==
    /\ MayCall
    /\ Atomic(Op("isMovieRunning", << >>),
              LAMBDA w : isMovieRunning(w))

GetDisplayedFrameCall ==
    /\ MayCall
    /\ Atomic(Op("getDisplayedFrame", << >>),
              LAMBDA w : getDisplayedFrame(w))

GetInterruptStatusCall ==
    /\ MayCall
    /\ Atomic(Op("getInterruptStatus", << >>),
              LAMBDA w : getInterruptStatus(w))

RunManualTestCall ==
    /\ MayCall
    /\ RunManualTestEnter

NextAll ==
    \/ IsChipConnectedCall
    \/ SetRamConfigurationCall
    \/ SetOnOffFrame24x5Call
    \/ SetOnOffFrameAllOnCall
    \/ SetBlinkAndPwmSetAllCall
    \/ SetDotCorrectionCall
    \/ SetInterruptMaskCall
    \/ SetInterruptFrameCall
    \/ SetInterfaceMonitoringCall
    \/ SetClockSynchronizationCall
    \/ SetCurrentSourceCall
    \/ SetScanLimitCall
    \/ SetBlinkEnabledCall
    \/ StartPictureCall
    \/ StopPictureCall
    \/ SetMovieEndFrameCall
    \/ SetMovieFrameCountCall
    \/ SetFrameDelayMsCall
    \/ SetScrollingEnabledCall
    \/ SetScrollingBlockSizeCall
    \/ SetScrollingDirectionCall
    \/ SetFrameFadingEnabledCall
    \/ SetBlinkFrequencyCall
    \/ SetMovieLoopCountCall
    \/ StartMovieCall
    \/ StopMovieCall
    \/ SetLowVddResetEnabledCall
    \/ SetLowVddStatusEnabledCall
    \/ SetLedErrorCorrectionEnabledCall
    \/ SetDotCorrectionEnabledCall
    \/ SetTestAllLedsEnabledCall
    \/ SetAutomaticTestEnabledCall
    \/ StartChipCall
    \/ StopChipCall
    \/ GetLedStatusCall
    \/ IsLedTestRunningCall
    \/ IsMovieRunningCall
    \/ GetDisplayedFrameCall
    \/ GetInterruptStatusCall
    \/ RunManualTestCall
    \/ RunManualTestPoll
    \/ RunManualTestDelay
    \/ RunManualTestExit
    \/ ChipTestFinish

SpecAll == InitFrame /\ [][NextAll]_vars

\* The bank an operation's memory accesses are meant for.
IntendedBank(c) ==
    CASE c.op \in {"setOnOffFrame24x5", "setOnOffFrameAllOn"} -> U8(RS_OnOffFrame + c.args[1])
      [] c.op = "setBlinkAndPwmSetAll" -> U8(RS_BlinkAndPwmSet + c.args[1])
      [] c.op = "setDotCorrection" -> RS_DotCorrection
      [] OTHER -> RS_Control

IsBankSelect(tx, bank) ==
    tx.k = "write" /\ tx.a = cRegisterSelectionAddress /\ tx.d = bank

\* C6: in the transactions of every step of every call, a data byte written
\* follows directly the write of the operation's bank to address 0xFD, and a
\* byte read follows directly the write of the register address, which
\* follows directly the write of the operation's bank to 0xFD; the only
\* cells of the chip a step changes lie in the operation's bank.
C6_BankSelectedBeforeEveryAccess ==
    /\ \A i \in 1..Len(trace) :
           LET tx == trace[i] IN
           /\ (tx.k = "write" /\ tx.a # cRegisterSelectionAddress) =>
                  (i > 1 /\ IsBankSelect(trace[i - 1], IntendedBank(call)))
           /\ (tx.k = "read") =>
                  /\ i > 2
                  /\ trace[i - 1].k = "addr" /\ trace[i - 1].a = tx.a
                  /\ IsBankSelect(trace[i - 2], IntendedBank(call))
           /\ (tx.k = "addr") => (i < Len(trace) /\ trace[i + 1].k = "read")
           /\ (tx.k = "write" /\ tx.a = cRegisterSelectionAddress) =>
                  (i < Len(trace) \/ call.op = "isChipConnected")
    /\ \A cell \in DOMAIN after :
           (cell \notin DOMAIN before \/ after[cell] # before[cell])
               => cell[1] = IntendedBank(call)

C6_Witness ==
    /\ prevCall.op = "setDotCorrection"
    /\ sel = RS_Control
    /\ call.op = "setScanLimit"
    /\ Len(trace) = 5
    /\ trace[3].k = "read"
    /\ trace[5].k = "write" /\ trace[5].a = CR_DisplayOption

====
